---- MODULE Spec2Model ----
(***************************************************************************)
(* A model of the NeoFS HTTP gateway: the node pool built by newApp, the   *)
(* bearer-token handling, the upload handler (uploader/filter.go) and the  *)
(* two download handlers (receive.go).                                     *)
(***************************************************************************)
EXTENDS Integers, Sequences, FiniteSets, TLC

\* ------------------------------------------------------------------ bounds
NumNodes == 2          \* peers listed in the configuration
MaxPriority == 2       \* priority values a peer may be given
MaxWeight == 1         \* configured weights range over 0..MaxWeight
ErrorThreshold == 2    \* pool_error_threshold of the configuration
MaxInFlight == 2       \* requests that hold a node at the same time

Nodes == 1..NumNodes

\* The default priority of a peer (docs/gate-configuration.md, peers table).
DefaultPriority == 1

VARIABLES
    peers,        \* the peers section of the configuration: priority, weight
    healthy,      \* pool: the healthy flag of each node
    errCount,     \* pool: the consecutive-error counter of each node
    inflight,     \* pool: acquisitions of each node not yet reported
    lastAcquire,  \* the result of the last Acquire, with the flags it saw
    getOperations,\* app.getOperations: the client and session of the downloads
    store,        \* the objects of the storage network, by object id
    last,         \* the last request handled: its input and what it did
    served,       \* the number of requests handled so far
    expiration,   \* an expiration translation: its input and its result
    uploaded,     \* history: the request that stored each object, if any
    app,          \* the process: its context, main, Serve, Worker and webDone
    fcall         \* one call of a function of the gateway: input and result

poolVars == <<peers, healthy, errCount, inflight, lastAcquire>>
gateVars ==
    <<getOperations, store, last, served, expiration, uploaded, app, fcall>>

\* ------------------------------------------------------------ the registry

\* Every configuration the peers section can hold.
PeerConfigs == [Nodes -> [priority : 1..MaxPriority, weight : 0..MaxWeight]]

\* PoolBuilder.AddNode(address, weight): the registry entry of a node added
\* with an address and a weight, and nothing else.
AddNode(address, weight) ==
    [address |-> address, weight |-> weight, priority |-> DefaultPriority]

\* newApp's loop over cfgPeers.<i>: it reads address and weight, replaces a
\* weight <= 0 by 1, and hands both to AddNode.
newAppPeers(cfg) ==
    [i \in Nodes |->
        AddNode(i, IF cfg[i].weight <= 0 THEN 1 ELSE cfg[i].weight)]

\* The node registry the pool was built from.
registry == newAppPeers(peers)

\* ----------------------------------------------------------------- Acquire

HealthyNodes(h) == {n \in Nodes : h[n]}

\* The tier (priority value) Acquire uses: the smallest priority value of the
\* registry that has a healthy node.
FirstHealthyTier(reg, h) ==
    CHOOSE p \in {reg[n].priority : n \in HealthyNodes(h)} :
        \A q \in {reg[n].priority : n \in HealthyNodes(h)} : p <= q

\* The nodes Acquire may return: the healthy nodes of the first tier that has
\* one, each with a probability proportional to its (positive) weight.
AcquireSet(reg, h) ==
    IF HealthyNodes(h) = {} THEN {}
    ELSE {n \in HealthyNodes(h) :
            /\ reg[n].priority = FirstHealthyTier(reg, h)
            /\ reg[n].weight > 0}

NoNode == 0

\* A variant of AcquireResults that looks at the first node of the registry
\* only and gives up when that node is unhealthy.
AcquireResultsFirstNode(reg, h) ==
    IF h[1] THEN {[res |-> "node", node |-> 1]}
    ELSE {[res |-> "NoHealthyNode", node |-> NoNode]}

\* Acquire() -> node | NoHealthyNode, computed from the flags as they are.
AcquireResults(reg, h) ==
    IF AcquireSet(reg, h) = {}
    THEN {[res |-> "NoHealthyNode", node |-> NoNode]}
    ELSE {[res |-> "node", node |-> n] : n \in AcquireSet(reg, h)}

\* -------------------------------------------------------- health accounting

\* A variant of ReportOutcome in which a success also sets the node healthy
\* again.
ReportOutcomeSuccessHeals(h, e, n, ok) ==
    IF ok
    THEN [healthy |-> [h EXCEPT ![n] = TRUE], errCount |-> [e EXCEPT ![n] = 0]]
    ELSE [healthy |-> [h EXCEPT ![n] = (e[n] + 1 < ErrorThreshold) /\ h[n]],
          errCount |-> [e EXCEPT ![n] = e[n] + 1]]

\* ReportOutcome(node, success | failure): a success resets the counter, a
\* failure increments it, and the node is unhealthy once the counter has
\* reached the threshold.
ReportOutcome(h, e, n, ok) ==
    IF ok
    THEN [healthy |-> h, errCount |-> [e EXCEPT ![n] = 0]]
    ELSE [healthy |-> [h EXCEPT ![n] = (e[n] + 1 < ErrorThreshold) /\ h[n]],
          errCount |-> [e EXCEPT ![n] = e[n] + 1]]

\* One probe of the probe loop: a success sets the node healthy and resets
\* its counter, a failure sets it unhealthy.
ProbeOutcome(h, e, n, ok) ==
    IF ok
    THEN [healthy |-> [h EXCEPT ![n] = TRUE], errCount |-> [e EXCEPT ![n] = 0]]
    ELSE [healthy |-> [h EXCEPT ![n] = FALSE], errCount |-> e]

\* ------------------------------------------------------------ pool actions

RECURSIVE SumOver(_, _)
SumOver(f, S) ==
    IF S = {} THEN 0
    ELSE LET x == CHOOSE y \in S : TRUE IN f[x] + SumOver(f, S \ {x})

\* A request acquires a node; it returns at once, with a node or the error.
Acquire ==
    /\ SumOver(inflight, Nodes) < MaxInFlight
    /\ \E r \in AcquireResults(registry, healthy) :
        /\ lastAcquire' = [res |-> r.res, node |-> r.node, saw |-> healthy]
        /\ inflight' = IF r.res = "node"
                       THEN [inflight EXCEPT ![r.node] = @ + 1]
                       ELSE inflight
    /\ UNCHANGED <<peers, healthy, errCount>>
    /\ UNCHANGED gateVars

\* A request reports the outcome of its call to the node it holds.
Report ==
    \E n \in Nodes, ok \in BOOLEAN :
        /\ inflight[n] > 0
        /\ LET r == ReportOutcome(healthy, errCount, n, ok)
           IN /\ healthy' = r.healthy
              /\ errCount' = r.errCount
        /\ inflight' = [inflight EXCEPT ![n] = @ - 1]
        /\ UNCHANGED <<peers, lastAcquire>>
        /\ UNCHANGED gateVars

\* The probe loop probes one node.
ProbeLoop ==
    \E n \in Nodes, ok \in BOOLEAN :
        /\ LET r == ProbeOutcome(healthy, errCount, n, ok)
           IN /\ healthy' = r.healthy
              /\ errCount' = r.errCount
        /\ UNCHANGED <<peers, inflight, lastAcquire>>
        /\ UNCHANGED gateVars

\* ------------------------------------------------------- identities, tokens

IntBits == 24          \* the width the model gives to the 64-bit integers
MaxUint64 == 2 ^ IntBits - 1

GatewayID == "gateway"        \* the owner id of the gateway's own key
Issuers == {"alice"}          \* issuers of bearer tokens

NoToken == [kind |-> "none", issuer |-> ""]
MalformedToken == [kind |-> "malformed", issuer |-> ""]
ValidTokens == {[kind |-> "valid", issuer |-> i] : i \in Issuers}
Tokens == {NoToken, MalformedToken} \cup ValidTokens

\* tokens.StoreBearerToken / storeBearerToken: the token of the request is
\* decoded and put in the request context; a token that cannot be decoded or
\* verified is an error, an absent one leaves the context without a token.
StoreBearerToken(tok) ==
    [err |-> tok.kind = "malformed",
     ctx |-> IF tok.kind = "valid" THEN tok ELSE NoToken]

\* tokens.LoadBearerToken: the token the request context holds.
LoadBearerToken(ctx) == ctx

\* Uploader.fetchOwnerAndBearerToken: the issuer and the token when the
\* context holds one, the gateway's owner id and no token otherwise.
fetchOwnerAndBearerToken(ctx) ==
    IF LoadBearerToken(ctx) # NoToken
    THEN [id |-> LoadBearerToken(ctx).issuer, bt |-> LoadBearerToken(ctx)]
    ELSE [id |-> GatewayID, bt |-> NoToken]

\* The session of the pool and of getOperations: newApp builds the pool with
\* the gateway's key and SessionExpirationEpoch = math.MaxUint64.
newAppSession == [owner |-> GatewayID, exp |-> MaxUint64]

\* ------------------------------------------------------------------ values

\* A header or attribute value: its text is one of a few formats, and a
\* parser accepts the texts of its own format only.
Str(s) == [fmt |-> "str", n |-> 0, s |-> s]
Num(n) == [fmt |-> "int", n |-> n, s |-> ""]
RFC3339(sec) == [fmt |-> "rfc3339", n |-> sec, s |-> ""]
Duration(ms) == [fmt |-> "duration", n |-> ms, s |-> ""]

\* len(val) == 0
IsEmptyVal(v) == v.fmt = "str" /\ v.s = ""

\* strconv.ParseInt(val, 10, 64)
ParseInt(v) == [err |-> v.fmt # "int", n |-> v.n]
\* strconv.FormatInt(n, 10)
FormatInt(n) == Num(n)

EmptyMap == [k \in {} |-> 0]
\* m[k] = v
MapSet(m, k, v) == (k :> v) @@ m
\* delete(m, k)
MapDelete(m, k) == [x \in (DOMAIN m) \ {k} |-> m[x]]

\* ----------------------------------------------------------------- objects

MaxObjects == 2        \* objects the storage network holds
ContainerIDs == {"c1"} \* the containers of the network
\* The container ids a request path may carry: one that parses, one that does
\* not.
PathCIDs == ContainerIDs \cup {"!"}
\* The object ids a request path may carry; 0 is one that does not parse.
PathOIDs == 0 .. MaxObjects

AttributeFileName == "FileName"
AttributeTimestamp == "Timestamp"
AttributeContentType == "Content-Type"

\* path.Base(name): the last element of the path, trailing slashes removed;
\* "." for the empty path, "/" for a path of slashes only.
RECURSIVE StripSlashes(_)
StripSlashes(p) ==
    IF Len(p) > 0 /\ SubSeq(p, Len(p), Len(p)) = "/"
    THEN StripSlashes(SubSeq(p, 1, Len(p) - 1))
    ELSE p
RECURSIVE AfterLastSlash(_, _)
AfterLastSlash(p, i) ==
    IF i = 0 THEN p
    ELSE IF SubSeq(p, i, i) = "/" THEN SubSeq(p, i + 1, Len(p))
    ELSE AfterLastSlash(p, i - 1)
PathBase(p) ==
    IF p = "" THEN "."
    ELSE IF StripSlashes(p) = "" THEN "/"
    ELSE AfterLastSlash(StripSlashes(p), Len(StripSlashes(p)))

\* http.DetectContentType(data): the type sniffed from the first bytes; the
\* payloads of the model are text, or start with the zero byte "0".
DetectContentType(data) ==
    IF Len(data) > 0 /\ SubSeq(data, 1, 1) = "0"
    THEN "application/octet-stream"
    ELSE "text/plain; charset=utf-8"

\* detector.Write over the writes of one response: the type is detected
\* once, from the first write.
detectorContentType(writes) ==
    IF writes = <<>> THEN "" ELSE DetectContentType(writes[1])

\* The ids of the objects of container cid whose attribute key has value val.
Matching(st, cid, key, val) ==
    {i \in 1 .. Len(st) :
        /\ st[i].cid = cid
        /\ key \in DOMAIN st[i].attrs
        /\ st[i].attrs[key] = val}

\* Every order in which a search may return the ids of set S.
Orders(S) ==
    {q \in [1 .. Cardinality(S) -> S] :
        \A i, j \in 1 .. Cardinality(S) : i # j => q[i] # q[j]}

\* A storage call of a request, as the network sees it.
StorageOp(op, node, session, bearer, target) ==
    [op |-> op, node |-> node, session |-> session, bearer |-> bearer,
     target |-> target]

\* A response body: the text of an error, the payload of an object, or the
\* JSON of a put response.
TextBody(text) ==
    [kind |-> "text", text |-> text, object_id |-> 0, container_id |-> ""]
PayloadBody(payload) ==
    [kind |-> "payload", text |-> payload, object_id |-> 0, container_id |-> ""]
\* A variant of JsonBody that names the first object of the container.
JsonBodyFirstObject(oid, cid) ==
    [kind |-> "json", text |-> "", object_id |-> 1, container_id |-> cid]

\* newPutResponse(addr).encode
JsonBody(oid, cid) ==
    [kind |-> "json", text |-> "", object_id |-> oid, container_id |-> cid]

NoResponse == [status |-> 0, body |-> TextBody(""), header |-> EmptyMap]
\* fasthttp's RequestCtx.Error / response.Error: status and plain-text body.
ErrorResponse(msg, code) ==
    [status |-> code, body |-> TextBody(msg), header |-> EmptyMap]

StatusOK == 200
StatusBadRequest == 400
StatusNotFound == 404
StatusInternalServerError == 500

\* --------------------------------------------------------------- downloads

OidVal(id) == [fmt |-> "oid", n |-> id, s |-> ""]

\* A variant of ObjectHeaders without the loop over the attributes.
ObjectHeadersFixedOnly(obj, id) ==
    ("Content-Length" :> Num(Len(obj.payload)))
    @@ ("x-object-id" :> OidVal(id))
    @@ ("x-owner-id" :> Str(obj.owner))
    @@ ("x-container-id" :> Str(obj.cid))

\* The response headers receiveFile sets from the object: the four fixed
\* ones, then "x-" + key for every attribute (Header.Set replaces a header
\* already set under the same name), Last-Modified from a Timestamp that
\* parses.
ObjectHeaders(obj, id) ==
    LET fixed == ("Content-Length" :> Num(Len(obj.payload)))
                 @@ ("x-object-id" :> OidVal(id))
                 @@ ("x-owner-id" :> Str(obj.owner))
                 @@ ("x-container-id" :> Str(obj.cid))
        xs == {"x-" \o k : k \in DOMAIN obj.attrs}
        attr(h) == obj.attrs[CHOOSE k \in DOMAIN obj.attrs : h = "x-" \o k]
        stamped == AttributeTimestamp \in DOMAIN obj.attrs
                   /\ ~ParseInt(obj.attrs[AttributeTimestamp]).err
        lm == IF stamped
              THEN ("Last-Modified" :>
                        [fmt |-> "rfc1123",
                         n |-> ParseInt(obj.attrs[AttributeTimestamp]).n,
                         s |-> ""])
              ELSE EmptyMap
    IN [h \in xs |-> attr(h)] @@ lm @@ fixed

\* request.receiveFile(options): the token is stored first; then the object
\* is read from options.Client under options.SessionToken, its payload goes
\* to the response through the detector, and the headers are set.
receiveFile(options, tok, download, outcome, st) ==
    LET tk == StoreBearerToken(tok)
        addr == options.ObjectAddress
        get == StorageOp("get", options.Client, options.SessionToken,
                         LoadBearerToken(tk.ctx), addr)
        obj == st[addr.oid]
        writes == IF obj.payload = "" THEN <<>> ELSE <<obj.payload>>
        filename == IF AttributeFileName \in DOMAIN obj.attrs
                    THEN obj.attrs[AttributeFileName].s ELSE ""
        dis == IF download THEN "attachment" ELSE "inline"
    IN IF tk.err
       THEN [ops |-> <<>>,
             resp |-> ErrorResponse("could not fetch and store bearer token",
                                    StatusBadRequest)]
       ELSE IF outcome # "ok"
       THEN [ops |-> <<get>>,
             resp |-> ErrorResponse("could not receive object",
                         IF outcome = "notfound" THEN StatusNotFound
                                                 ELSE StatusBadRequest)]
       ELSE [ops |-> <<get>>,
             resp |-> [status |-> StatusOK,
                       body |-> PayloadBody(obj.payload),
                       header |->
                         ("Content-Type" :> Str(detectorContentType(writes)))
                         @@ ("Content-Disposition" :>
                                Str(dis \o "; filename=" \o PathBase(filename)))
                         @@ ObjectHeaders(obj, addr.oid)]]

\* What a Get of the address may end in: the object, when the network holds
\* it; a NotFound status when it does not; any other failure.
GetOutcomes(st, addr) ==
    IF addr.oid \in 1 .. Len(st) /\ st[addr.oid].cid = addr.cid
    THEN {"ok", "error"}
    ELSE {"notfound", "error"}

\* A request: its handler, its bearer token, the container id of its path
\* and its headers.
Request(handler, tok, cid, hdrs) ==
    [handler |-> handler, tok |-> tok, cid |-> cid, hdrs |-> hdrs,
     body |-> <<>>, prefix |-> ""]

NoRequest == Request("none", NoToken, "", <<>>)

\* The requests a run answers.
MaxRequests == 1

\* app.Serve hands a request to its handler.
Serve ==
    /\ served < MaxRequests
    /\ served' = served + 1
    /\ UNCHANGED <<expiration, app, fcall>>

\* What a search answered: nothing (no search, or a failed one) or the ids.
NoFound == [ok |-> FALSE, ids |-> <<>>]
Found(ids) == [ok |-> TRUE, ids |-> ids]

\* A handled request: the storage calls it issued, its response, the answer
\* of its search, the stage it ended in, its reference time, the id of the
\* object it stored (0: none), the length of the chunk buffer it copied
\* with (0: it made none) and whether the stream of the request body was at
\* its end when the handler returned.
Handled(req, ops, resp, found, stage, now, stored) ==
    [req |-> req, ops |-> ops, resp |-> resp, found |-> found,
     stage |-> stage, now |-> now, stored |-> stored, chunk |-> 0,
     drained |-> FALSE, rest |-> <<>>]

Done(req, ops, resp, found) == Handled(req, ops, resp, found, "", 0, 0)

\* app.byAddress: GET /get/{cid}/{oid}.
byAddressOf(tok, scid, soid, download) ==
    LET req == Request("byAddress", tok, scid, <<>>)
        address == [cid |-> scid, oid |-> soid]
        getOpts == [Client |-> getOperations.client,
                    SessionToken |-> getOperations.sessionToken,
                    ObjectAddress |-> address]
    IN /\ IF scid \notin ContainerIDs \/ soid = 0
          THEN last' = Done(req, <<>>,
                            ErrorResponse("wrong object address",
                                          StatusBadRequest), NoFound)
          ELSE \E outcome \in GetOutcomes(store, address) :
                LET r == receiveFile(getOpts, tok, download, outcome, store)
                IN last' = Done(req, r.ops, r.resp, NoFound)
       /\ UNCHANGED <<getOperations, store, uploaded>>
       /\ UNCHANGED poolVars

byAddress ==
    /\ Serve
    /\ \E tok \in Tokens, scid \in PathCIDs, soid \in PathOIDs,
          download \in BOOLEAN :
        byAddressOf(tok, scid, soid, download)

\* The attribute keys and values a get_by_attribute path may carry.
SearchKeys == {"k", AttributeFileName}
SearchVals == {Str("v"), Str("dir/a.txt")}

\* app.byAttribute: GET /get_by_attribute/{cid}/{attr_key}/{attr_val}.
byAttribute ==
    /\ Serve
    /\ \E tok \in Tokens, scid \in PathCIDs, key \in SearchKeys,
       val \in SearchVals, download \in BOOLEAN :
        LET req == Request("byAttribute", tok, scid, <<>>)
            search == StorageOp("search", getOperations.client,
                                getOperations.sessionToken, NoToken,
                                [cid |-> scid, key |-> key, val |-> val])
        IN /\ IF scid \notin ContainerIDs
              THEN last' = Done(req, <<>>,
                                ErrorResponse("wrong container id",
                                              StatusBadRequest), NoFound)
              ELSE \/ last' = Done(req, <<search>>,
                                   ErrorResponse("something went wrong",
                                                 StatusBadRequest), NoFound)
                   \/ \E ids \in Orders(Matching(store, scid, key, val)) :
                        IF Len(ids) = 0
                        THEN last' = Done(req, <<search>>,
                                          ErrorResponse("object not found",
                                                        StatusNotFound), Found(ids))
                        ELSE LET address == [cid |-> scid, oid |-> ids[1]]
                                 getOpts ==
                                    [Client |-> getOperations.client,
                                     SessionToken |->
                                        getOperations.sessionToken,
                                     ObjectAddress |-> address]
                             IN \E outcome \in GetOutcomes(store, address) :
                                 LET r == receiveFile(getOpts, tok, download,
                                                      outcome, store)
                                 IN last' = Done(req, <<search>> \o r.ops,
                                                 r.resp, Found(ids))
           /\ UNCHANGED <<getOperations, store, uploaded>>
           /\ UNCHANGED poolVars

\* The objects other clients of the network may have stored.
StoredObject(owner, attrs, payload) ==
    [cid |-> "c1", owner |-> owner, attrs |-> attrs, payload |-> payload]
StoredObjects ==
    {StoredObject(GatewayID, EmptyMap, "ab"),
     StoredObject("alice", "k" :> Str("v"), "0a"),
     StoredObject(GatewayID,
                  ("k" :> Str("v")) @@ (AttributeFileName :> Str("dir/a.txt")),
                  "ab"),
     StoredObject(GatewayID,
                  ("k" :> Str("v")) @@ ("object-id" :> Str("zz")), "ab"),
     StoredObject(GatewayID, AttributeTimestamp :> Num(5), "")}
Stores == UNION {[1 .. n -> StoredObjects] : n \in 0 .. MaxObjects}

\* ------------------------------------------------------- upload: attributes

userAttributeHeaderPrefix == "X-Attribute-"
systemAttributePrefix == "__NEOFS__"
expirationDurationAttr == systemAttributePrefix \o "EXPIRATION_DURATION"
expirationTimestampAttr == systemAttributePrefix \o "EXPIRATION_TIMESTAMP"
expirationRFC3339Attr == systemAttributePrefix \o "EXPIRATION_RFC3339"
\* object.SysAttributeExpEpoch
SysAttributeExpEpoch == systemAttributePrefix \o "EXPIRATION_EPOCH"
neofsAttributeHeaderPrefixes == <<"Neofs-", "NEOFS-", "neofs-">>

\* bytes.HasPrefix, bytes.TrimPrefix
HasPrefix(s, p) == Len(s) >= Len(p) /\ SubSeq(s, 1, Len(p)) = p
TrimPrefix(s, p) == IF HasPrefix(s, p) THEN SubSeq(s, Len(p) + 1, Len(s)) ELSE s

\* bytes.Replace(s, old, new, 1): the first occurrence of old is replaced.
RECURSIVE ReplaceFirst(_, _, _)
ReplaceFirst(s, old, new) ==
    IF Len(s) < Len(old) THEN s
    ELSE IF HasPrefix(s, old) THEN new \o SubSeq(s, Len(old) + 1, Len(s))
    ELSE SubSeq(s, 1, 1) \o ReplaceFirst(SubSeq(s, 2, Len(s)), old, new)

LowerCase == "abcdefghijklmnopqrstuvwxyz"
UpperCase == "ABCDEFGHIJKLMNOPQRSTUVWXYZ"
ToUpperChar(c) ==
    IF \E i \in 1 .. Len(LowerCase) : SubSeq(LowerCase, i, i) = c
    THEN LET i == CHOOSE j \in 1 .. Len(LowerCase) : SubSeq(LowerCase, j, j) = c
         IN SubSeq(UpperCase, i, i)
    ELSE c

\* bytes.ReplaceAll(s, "-", "_")
RECURSIVE DashesToUnderscores(_)
DashesToUnderscores(s) ==
    IF s = "" THEN ""
    ELSE (IF SubSeq(s, 1, 1) = "-" THEN "_" ELSE SubSeq(s, 1, 1))
         \o DashesToUnderscores(SubSeq(s, 2, Len(s)))

\* bytes.ToUpper
RECURSIVE ToUpper(_)
ToUpper(s) ==
    IF s = "" THEN ""
    ELSE ToUpperChar(SubSeq(s, 1, 1)) \o ToUpper(SubSeq(s, 2, Len(s)))

systemTranslator(key, prefix) ==
    ToUpper(DashesToUnderscores(ReplaceFirst(key, prefix, systemAttributePrefix)))

\* The key filterHeaders gives a header without its attribute prefix: the
\* first of the three system prefixes it starts with is translated.
TranslateKey(key) ==
    IF \E i \in 1 .. Len(neofsAttributeHeaderPrefixes) :
            HasPrefix(key, neofsAttributeHeaderPrefixes[i])
    THEN LET i == CHOOSE j \in 1 .. Len(neofsAttributeHeaderPrefixes) :
                    /\ HasPrefix(key, neofsAttributeHeaderPrefixes[j])
                    /\ \A k \in 1 .. j - 1 :
                        ~HasPrefix(key, neofsAttributeHeaderPrefixes[k])
         IN systemTranslator(key, neofsAttributeHeaderPrefixes[i])
    ELSE key

\* filterHeaders: the headers are visited in order; one with an empty key or
\* value, without the attribute prefix, or with nothing after it is skipped.
RECURSIVE filterHeadersFrom(_, _, _)
filterHeadersFrom(header, i, result) ==
    IF i > Len(header) THEN result
    ELSE LET key == header[i].key
             val == header[i].val
             k == TranslateKey(TrimPrefix(key, userAttributeHeaderPrefix))
         IN IF \/ key = "" \/ IsEmptyVal(val)
               \/ ~HasPrefix(key, userAttributeHeaderPrefix)
               \/ k = ""
            THEN filterHeadersFrom(header, i + 1, result)
            ELSE filterHeadersFrom(header, i + 1, MapSet(result, k, val))

filterHeaders(header) == filterHeadersFrom(header, 1, EmptyMap)

needParseExpiration(headers) ==
    \/ expirationDurationAttr \in DOMAIN headers
    \/ expirationRFC3339Attr \in DOMAIN headers
    \/ expirationTimestampAttr \in DOMAIN headers

\* ------------------------------------------------------- upload: expiration

\* A value as a signed integer of the model's width (two's complement).
Int64(x) ==
    ((x + 2 ^ (IntBits - 1)) % (2 ^ IntBits)) - 2 ^ (IntBits - 1)

\* Go's integer division: the quotient is truncated toward zero.
GoDiv(a, b) ==
    IF (a >= 0) = (b > 0) THEN (IF a >= 0 THEN a ELSE -a) \div (IF b > 0 THEN b ELSE -b)
    ELSE -((IF a >= 0 THEN a ELSE -a) \div (IF b > 0 THEN b ELSE -b))

\* time.Parse(time.RFC3339, v), time.ParseDuration(v), and
\* time.Parse(http.TimeFormat, v). Times are in milliseconds; the texts of
\* timestamps carry seconds.
ParseRFC3339(v) == [err |-> v.fmt # "rfc3339", t |-> v.n * 1000]
ParseDuration(v) == [err |-> v.fmt # "duration", d |-> v.n]
ParseHTTPTime(v) == [err |-> v.fmt # "httptime", t |-> v.n * 1000]
HTTPTime(sec) == [fmt |-> "httptime", n |-> sec, s |-> ""]
\* time.Unix(value, 0)
TimeUnix(sec) == sec * 1000

\* getEpochDurations: the network info of the pool, refused when the call
\* fails or when the epoch duration is zero.
getEpochDurations(info) ==
    [err |-> info.err \/ info.epochDuration = 0,
     currentEpoch |-> info.currentEpoch,
     msPerBlock |-> info.msPerBlock,
     blockPerEpoch |-> info.epochDuration]

\* updateExpirationHeader: the expiration epoch of a duration (milliseconds).
\* A zero epoch length makes the division panic.
updateExpirationHeader(headers, durations, expDuration) ==
    LET epochDuration == Int64(durations.msPerBlock * Int64(durations.blockPerEpoch))
    IN IF epochDuration = 0
       THEN [panic |-> TRUE, headers |-> headers]
       ELSE [panic |-> FALSE,
             headers |-> MapSet(headers, SysAttributeExpEpoch,
                            FormatInt(Int64(Int64(durations.currentEpoch)
                                + GoDiv(expDuration, epochDuration))))]

ExpFail(st) == [st EXCEPT !.err = TRUE]
ExpUpdated(st, durations, expDuration, key) ==
    LET u == updateExpirationHeader(st.headers, durations, expDuration)
    IN IF u.panic THEN [st EXCEPT !.panic = TRUE]
       ELSE [st EXCEPT !.headers = MapDelete(u.headers, key)]

\* prepareExpirationHeader, the RFC-3339 form: the value must parse and must
\* not be before now.
prepareRFC3339(st, durations, now) ==
    IF st.err \/ st.panic \/ expirationRFC3339Attr \notin DOMAIN st.headers
    THEN st
    ELSE LET p == ParseRFC3339(st.headers[expirationRFC3339Attr])
         IN IF p.err \/ p.t < now THEN ExpFail(st)
            ELSE ExpUpdated(st, durations, p.t - now, expirationRFC3339Attr)

\* A variant of the Unix-timestamp form that takes a time before now as well.
prepareTimestampUnchecked(st, durations, now) ==
    IF st.err \/ st.panic \/ expirationTimestampAttr \notin DOMAIN st.headers
    THEN st
    ELSE LET p == ParseInt(st.headers[expirationTimestampAttr])
         IN IF p.err THEN ExpFail(st)
            ELSE ExpUpdated(st, durations, TimeUnix(p.n) - now,
                            expirationTimestampAttr)

\* prepareExpirationHeader, the Unix-timestamp form.
prepareTimestamp(st, durations, now) ==
    IF st.err \/ st.panic \/ expirationTimestampAttr \notin DOMAIN st.headers
    THEN st
    ELSE LET p == ParseInt(st.headers[expirationTimestampAttr])
         IN IF p.err \/ TimeUnix(p.n) < now THEN ExpFail(st)
            ELSE ExpUpdated(st, durations, TimeUnix(p.n) - now,
                            expirationTimestampAttr)

\* prepareExpirationHeader, the duration form: the value must parse and be
\* positive.
prepareDuration(st, durations) ==
    IF st.err \/ st.panic \/ expirationDurationAttr \notin DOMAIN st.headers
    THEN st
    ELSE LET p == ParseDuration(st.headers[expirationDurationAttr])
         IN IF p.err \/ p.d <= 0 THEN ExpFail(st)
            ELSE ExpUpdated(st, durations, p.d, expirationDurationAttr)

\* A variant of prepareExpirationHeader that leaves the epoch the derived
\* forms gave.
prepareExpirationHeaderKeepsDerived(headers, durations, now) ==
    prepareDuration(
        prepareTimestamp(
            prepareRFC3339([err |-> FALSE, panic |-> FALSE,
                            headers |-> headers], durations, now),
            durations, now),
        durations)

\* A variant of prepareExpirationHeader that takes the three forms in the
\* opposite order.
prepareExpirationHeaderReversed(headers, durations, now) ==
    LET given == SysAttributeExpEpoch \in DOMAIN headers
        st0 == [err |-> FALSE, panic |-> FALSE, headers |-> headers]
        st3 == prepareRFC3339(
                  prepareTimestamp(
                      prepareDuration(st0, durations), durations, now),
                  durations, now)
    IN IF st3.err \/ st3.panic \/ ~given THEN st3
       ELSE [st3 EXCEPT !.headers =
                MapSet(st3.headers, SysAttributeExpEpoch,
                       headers[SysAttributeExpEpoch])]

\* prepareExpirationHeader(headers, epochDurations, now): the three forms in
\* turn, then the epoch attribute the caller gave, if any, is put back.
prepareExpirationHeader(headers, durations, now) ==
    LET given == SysAttributeExpEpoch \in DOMAIN headers
        expirationInEpoch == IF given THEN headers[SysAttributeExpEpoch]
                             ELSE Str("")
        st0 == [err |-> FALSE, panic |-> FALSE, headers |-> headers]
        st3 == prepareDuration(
                  prepareTimestamp(
                      prepareRFC3339(st0, durations, now), durations, now),
                  durations)
    IN IF st3.err \/ st3.panic \/ IsEmptyVal(expirationInEpoch) THEN st3
       ELSE [st3 EXCEPT !.headers =
                MapSet(st3.headers, SysAttributeExpEpoch, expirationInEpoch)]

\* ------------------------------------------------------------------ upload

jsonHeader == "application/json; charset=UTF-8"

\* A variant of fetchMultipartFile that returns the last part with a form
\* name and a file name.
fetchMultipartFileLast(parts) ==
    LET named == {i \in DOMAIN parts :
                    ~parts[i].bad /\ parts[i].form # "" /\ parts[i].file # ""}
    IN IF named = {} THEN 0
       ELSE CHOOSE i \in named : \A j \in named : j <= i

\* fetchMultipartFile: the index of the first part with a form name and a
\* file name; 0 (an error) when NextPart fails or the body ends before one.
RECURSIVE fetchMultipartFileFrom(_, _)
fetchMultipartFileFrom(parts, i) ==
    IF i > Len(parts) \/ parts[i].bad THEN 0
    ELSE IF parts[i].form = "" \/ parts[i].file = ""
         THEN fetchMultipartFileFrom(parts, i + 1)
         ELSE i

fetchMultipartFile(parts) == fetchMultipartFileFrom(parts, 1)

\* The largest number of reads that give data while the body is drained.
MaxReads == 1

\* What bodyStream.Read gives, read after read, once the file part has been
\* copied: data up to MaxReads times, then the end of the stream, an
\* unexpected end, or an error of the connection. The last outcome is the one
\* every further Read gives.
BodyStreams ==
    {pre \o <<end>> :
        pre \in UNION {[1 .. n -> {"data"}] : n \in 0 .. MaxReads},
        end \in {"io.EOF", "io.ErrUnexpectedEOF", "timeout", "reset"}}

\* The loop that drains the body: it is left on io.EOF or
\* io.ErrUnexpectedEOF and on nothing else. TRUE when the loop is left.
RECURSIVE drainLoop(_, _)
drainLoop(stream, i) ==
    IF stream[i] \in {"io.EOF", "io.ErrUnexpectedEOF"} THEN TRUE
    ELSE IF i = Len(stream) THEN FALSE
    ELSE drainLoop(stream, i + 1)

\* A call through the pool: it acquires a node, fails at once without one,
\* and reports the outcome of the call to the pool.
PoolCalls(h, e) ==
    {IF r.res = "NoHealthyNode"
     THEN [err |-> TRUE, issued |-> FALSE, node |-> NoNode,
           healthy |-> h, errCount |-> e]
     ELSE [err |-> ~ok, issued |-> TRUE, node |-> r.node,
           healthy |-> ReportOutcome(h, e, r.node, ok).healthy,
           errCount |-> ReportOutcome(h, e, r.node, ok).errCount]
     : r \in AcquireResults(registry, h), ok \in BOOLEAN}

NoSession == [owner |-> "", exp |-> 0]

\* The attributes Upload gives the object: the filtered headers, the file
\* name and content type of the part and the current time where the headers
\* gave none.
UploadAttributes(filtered, file, defaultTimestamp, clock) ==
    LET a1 == IF AttributeFileName \in DOMAIN filtered THEN filtered
              ELSE MapSet(filtered, AttributeFileName, Str(file.file))
        a2 == IF AttributeContentType \notin DOMAIN filtered /\ file.ctype # ""
              THEN MapSet(a1, AttributeContentType, Str(file.ctype))
              ELSE a1
    IN IF AttributeTimestamp \notin DOMAIN filtered /\ defaultTimestamp
       THEN MapSet(a2, AttributeTimestamp, FormatInt(clock \div 1000))
       ELSE a2

\* The reference time of the expiration headers: the Date header when it is
\* there and parses, the clock otherwise.
UploadNow(hdrs, clock) ==
    IF \E i \in 1 .. Len(hdrs) :
            hdrs[i].key = "Date" /\ ~ParseHTTPTime(hdrs[i].val).err
    THEN ParseHTTPTime(hdrs[CHOOSE i \in 1 .. Len(hdrs) :
                                hdrs[i].key = "Date"].val).t
    ELSE clock

\* The chunk buffer lengths Settings.maxObjectSize may hold: the zero value
\* of a Settings nobody has set, a negative value, and lengths below, at and
\* above the lengths of the parts.
MaxObjectSizes == {0 - 1, 0, 1, 2, 3}

Min(a, b) == IF a < b THEN a ELSE b

\* A variant of CopyBuffer that stops after the first read.
CopyBufferOneRead(src, size) ==
    [panic |-> size <= 0,
     written |-> IF size <= 0 \/ src = "" THEN ""
                 ELSE SubSeq(src, 1, Min(size, Len(src)))]

\* The loop of io.CopyBuffer: one read of at most size bytes, one write of
\* the bytes read, until the source is at its end.
RECURSIVE copyBuffer(_, _, _)
copyBuffer(src, size, dst) ==
    IF src = "" THEN dst
    ELSE LET nr == Min(size, Len(src))
         IN copyBuffer(IF nr = Len(src) THEN ""
                       ELSE SubSeq(src, nr + 1, Len(src)),
                       size, dst \o SubSeq(src, 1, nr))

\* chunk := make([]byte, maxObjectSize); io.CopyBuffer(writer, file, chunk):
\* make panics on a negative length and CopyBuffer on an empty buffer.
CopyBuffer(src, size) ==
    [panic |-> size <= 0,
     written |-> IF size <= 0 THEN "" ELSE copyBuffer(src, size, "")]

\* Upload, from the attributes on: the write stream is opened through the
\* pool, the part is copied, the stream is closed, the response is encoded
\* and the rest of the body is drained.
UploadPut(req, ctx, file, filtered, ops, h, e, clock, now) ==
    \E defaultTimestamp \in BOOLEAN, call \in PoolCalls(h, e) :
        LET ob == fetchOwnerAndBearerToken(ctx)
            obj == [cid |-> req.cid, owner |-> ob.id,
                    attrs |-> UploadAttributes(filtered, file,
                                               defaultTimestamp, clock),
                    payload |-> ""]
            put == StorageOp("put", call.node, newAppSession, ob.bt,
                             [cid |-> req.cid, owner |-> ob.id])
            tried == IF call.issued THEN ops \o <<put>> ELSE ops
            failed == ReportOutcome(call.healthy, call.errCount, call.node, FALSE)
            idObj == Len(store) + 1
        IN IF call.err
           THEN /\ last' = Handled(req, tried,
                                   ErrorResponse("writer init",
                                                 StatusInternalServerError),
                                   NoFound, "putinit", now, 0)
                /\ healthy' = call.healthy /\ errCount' = call.errCount
                /\ store' = store
                /\ uploaded' = uploaded
           ELSE \E copy \in {"ok", "read", "write"},
                   maxObjectSize \in MaxObjectSizes :
                LET copied == CopyBuffer(file.data, maxObjectSize)
                IN
                IF copied.panic
                THEN /\ last' = [Handled(req, tried, NoResponse, NoFound,
                                         "panic", now, 0)
                                 EXCEPT !.chunk = maxObjectSize]
                     /\ healthy' = call.healthy
                     /\ errCount' = call.errCount
                     /\ store' = store
                     /\ uploaded' = uploaded
                ELSE IF copy # "ok"
                THEN /\ last' = [Handled(req, tried,
                                        ErrorResponse("write",
                                            StatusInternalServerError),
                                        NoFound, "copy", now, 0)
                                 EXCEPT !.chunk = maxObjectSize]
                     /\ healthy' = IF copy = "write" THEN failed.healthy
                                   ELSE call.healthy
                     /\ errCount' = IF copy = "write" THEN failed.errCount
                                    ELSE call.errCount
                     /\ store' = store
                     /\ uploaded' = uploaded
                ELSE \E closed \in BOOLEAN :
                     IF ~closed
                     THEN /\ last' = [Handled(req, tried,
                                             ErrorResponse("close writer",
                                                 StatusInternalServerError),
                                             NoFound, "close", now, 0)
                                      EXCEPT !.chunk = maxObjectSize]
                          /\ healthy' = failed.healthy
                          /\ errCount' = failed.errCount
                          /\ store' = store
                          /\ uploaded' = uploaded
                     ELSE /\ store' = Append(store,
                                    [obj EXCEPT !.payload = copied.written])
                          /\ uploaded' = Append(uploaded, req)
                          /\ healthy' = call.healthy
                          /\ errCount' = call.errCount
                          /\ \E encoded \in BOOLEAN, rest \in BodyStreams :
                              LET drained == drainLoop(rest, 1) IN
                              last' =
                                [IF ~encoded
                                THEN Handled(req, tried,
                                        ErrorResponse("could not encode response",
                                                      StatusBadRequest),
                                        NoFound, "encode", now, idObj)
                                ELSE Handled(req, tried,
                                        [status |-> IF drained THEN StatusOK
                                                    ELSE 0,
                                         body |-> JsonBody(idObj, req.cid),
                                         header |->
                                            IF drained
                                            THEN "Content-Type" :> Str(jsonHeader)
                                            ELSE EmptyMap],
                                        NoFound,
                                        IF drained THEN "ok" ELSE "drain",
                                        now, idObj)
                                 EXCEPT !.chunk = maxObjectSize,
                                        !.drained = encoded /\ drained,
                                        !.rest = IF encoded THEN rest
                                                 ELSE <<>>]

\* The parts a multipart body may hold.
FilePart(file, ctype, data) ==
    [bad |-> FALSE, form |-> "file", file |-> file, ctype |-> ctype,
     data |-> data]
ValuePart == [bad |-> FALSE, form |-> "field", file |-> "", ctype |-> "",
              data |-> "x"]
BadPart == [bad |-> TRUE, form |-> "", file |-> "", ctype |-> "", data |-> ""]
Bodies ==
    {<<ValuePart, BadPart>>,
     <<ValuePart, FilePart("a.txt", "text/plain", "abc"),
       FilePart("c", "", "zz")>>}

Header(key, val) == [key |-> key, val |-> val]
\* The request headers of the uploads; the clock of the gateway reads Clock.
Clock == TimeUnix(5)
UploadHeaders ==
    {<<Header("X-Attribute-k", Str("v"))>>,
     <<Header("X-Attribute-Foo", Str("bar")),
       Header("X-Attribute-object-id", Str("zz")),
       Header("X-Attribute-e", Str(""))>>,
     <<Header("X-Attribute-Neofs-Expiration-RFC3339", RFC3339(3))>>,
     <<Header("Date", HTTPTime(2)),
       Header("X-Attribute-Neofs-Expiration-RFC3339", RFC3339(3))>>,
     <<Header("X-Attribute-NEOFS-Expiration-Timestamp", Num(3))>>,
     <<Header("X-Attribute-neofs-Expiration-Duration", Duration(4000))>>,
     <<Header("X-Attribute-Neofs-Expiration-Epoch", Num(77))>>,
     <<Header("X-Attribute-Neofs-Expiration-Epoch", Num(77)),
       Header("X-Attribute-Neofs-Expiration-RFC3339", RFC3339(9))>>}

\* What the network may answer to NetworkInfo.
NetworkInfo(currentEpoch, msPerBlock, epochDuration) ==
    [err |-> FALSE, currentEpoch |-> currentEpoch, msPerBlock |-> msPerBlock,
     epochDuration |-> epochDuration]
UploadNetworkInfos ==
    {NetworkInfo(10, 1000, 2), NetworkInfo(10, 1000, 0), NetworkInfo(10, 0, 2)}

\* Uploader.Upload: POST /upload/{cid}.
Upload ==
    /\ Len(store) < MaxObjects
    /\ Serve
    /\ UNCHANGED <<peers, inflight, lastAcquire, getOperations>>
    /\ \E tok \in Tokens, scid \in PathCIDs, body \in Bodies,
          hdrs \in UploadHeaders :
        LET req == [Request("Upload", tok, scid, hdrs) EXCEPT !.body = body]
            tk == StoreBearerToken(tok)
            idx == fetchMultipartFile(body)
            filtered == filterHeaders(hdrs)
            now == UploadNow(hdrs, Clock)
            refuse(stage, msg) ==
                /\ last' = Handled(req, <<>>,
                                   ErrorResponse(msg, StatusBadRequest),
                                   NoFound, stage, 0, 0)
                /\ UNCHANGED <<healthy, errCount, store, uploaded>>
        IN IF tk.err THEN refuse("token", "could not fetch bearer token")
           ELSE IF scid \notin ContainerIDs
           THEN refuse("cid", "wrong container id")
           ELSE IF idx = 0
           THEN \* NextPart failed: on a body cut short the stream is at
                \* its end, on a malformed part it is not.
                \E atEnd \in BOOLEAN :
                    /\ last' = [Handled(req, <<>>,
                                    ErrorResponse(
                                        "could not receive multipart/form",
                                        StatusBadRequest),
                                    NoFound, "multipart", 0, 0)
                                EXCEPT !.drained = atEnd]
                    /\ UNCHANGED <<healthy, errCount, store, uploaded>>
           ELSE IF ~needParseExpiration(filtered)
           THEN UploadPut(req, tk.ctx, body[idx], filtered, <<>>,
                          healthy, errCount, Clock, 0)
           ELSE \E call \in PoolCalls(healthy, errCount),
                   info \in UploadNetworkInfos :
                LET ops == IF call.issued
                           THEN <<StorageOp("netinfo", call.node, NoSession,
                                            NoToken, [cid |-> "", owner |-> ""])>>
                           ELSE <<>>
                    ed == getEpochDurations([info EXCEPT !.err = call.err])
                    pe == prepareExpirationHeader(filtered, ed, now)
                IN IF ed.err \/ pe.err \/ pe.panic
                   THEN /\ last' =
                            Handled(req, ops,
                                IF pe.panic /\ ~ed.err THEN NoResponse
                                ELSE ErrorResponse(
                                        IF ed.err
                                        THEN "could not get epoch durations from network info"
                                        ELSE "could not parse expiration header",
                                        StatusBadRequest),
                                NoFound,
                                IF ed.err THEN "netinfo"
                                ELSE IF pe.panic THEN "panic" ELSE "expiration",
                                now, 0)
                        /\ healthy' = call.healthy
                        /\ errCount' = call.errCount
                        /\ store' = store
                        /\ uploaded' = uploaded
                   ELSE UploadPut(req, tk.ctx, body[idx], pe.headers, ops,
                                  call.healthy, call.errCount, Clock, now)

\* simpleGet of the integration test: once the upload has been answered, a
\* later request downloads the object it stored.
subsequentDownload ==
    /\ served = MaxRequests
    /\ last.req.handler = "Upload"
    /\ last.stored # 0
    /\ served' = served + 1
    /\ UNCHANGED <<expiration, app, fcall>>
    /\ \E tok \in Tokens, download \in BOOLEAN :
        byAddressOf(tok, last.req.cid, last.stored, download)

\* ------------------------------------------- expiration translation alone

NoExpiration ==
    [done |-> TRUE, headers |-> EmptyMap, info |-> NetworkInfo(0, 0, 0),
     now |-> 0, err |-> FALSE, panic |-> FALSE, result |-> EmptyMap]

\* The expiration headers of a request: one derived form, several, or a
\* derived form next to the native epoch.
ExpirationHeaders ==
    {<<Header("X-Attribute-Neofs-Expiration-Duration", Duration(d))>> :
        d \in {0, 1, 4000, 150000}}
    \cup {<<Header("X-Attribute-Neofs-Expiration-RFC3339", RFC3339(t))>> :
        t \in {3, 5, 9}}
    \cup {<<Header("X-Attribute-Neofs-Expiration-Timestamp", Num(t))>> :
        t \in {3, 5, 9}}
    \cup {<<Header("X-Attribute-Neofs-Expiration-Timestamp", Str("soon"))>>,
          <<Header("X-Attribute-Neofs-Expiration-RFC3339", RFC3339(9)),
            Header("X-Attribute-Neofs-Expiration-Duration", Duration(150000))>>,
          <<Header("X-Attribute-Neofs-Expiration-Timestamp", Num(9)),
            Header("X-Attribute-Neofs-Expiration-Duration", Duration(0))>>,
          <<Header("X-Attribute-Neofs-Expiration-Epoch", Num(77)),
            Header("X-Attribute-Neofs-Expiration-Duration", Duration(4000))>>,
          <<Header("X-Attribute-Neofs-Expiration-RFC3339", RFC3339(20)),
            Header("X-Attribute-Neofs-Expiration-Timestamp", Num(9))>>,
          <<Header("X-Attribute-Neofs-Expiration-RFC3339", RFC3339(9)),
            Header("X-Attribute-Neofs-Expiration-Timestamp", Num(3))>>,
          <<Header("X-Attribute-Neofs-Expiration-RFC3339", RFC3339(9)),
            Header("X-Attribute-Neofs-Expiration-Timestamp", Str("soon"))>>,
          <<Header("X-Attribute-Neofs-Expiration-RFC3339", RFC3339(3)),
            Header("X-Attribute-Neofs-Expiration-Duration", Duration(150000))>>,
          <<Header("X-Attribute-Neofs-Expiration-Duration", Duration(150000)),
            Header("X-Attribute-Neofs-Expiration-Timestamp", Num(9)),
            Header("X-Attribute-Neofs-Expiration-RFC3339", RFC3339(20))>>}

\* The snapshots NetworkInfo may give: sound ones, and ones with a zero, a
\* negative or an overflowing epoch length.
ExpirationNetworkInfos ==
    {NetworkInfo(e, ms, b) :
        e \in {0, 10}, ms \in {-1000, 0, 1, 1000, 4097}, b \in {0, 2, 100, 4096}}

ExpirationNows == {TimeUnix(5), TimeUnix(5) + 1}

\* Upload's expiration stage: getEpochDurations, then prepareExpirationHeader.
translateExpiration ==
    /\ ~expiration.done
    /\ LET ed == getEpochDurations(expiration.info)
           pe == prepareExpirationHeader(expiration.headers, ed, expiration.now)
       IN expiration' =
            IF ed.err
            THEN [expiration EXCEPT !.done = TRUE, !.err = TRUE]
            ELSE [expiration EXCEPT !.done = TRUE, !.err = pe.err,
                                    !.panic = pe.panic,
                                    !.result = IF pe.err \/ pe.panic
                                               THEN EmptyMap ELSE pe.headers]
    /\ UNCHANGED <<poolVars, getOperations, store, last, served, uploaded,
                   app, fcall>>

\* ------------------------------------------------------- specifications

\* ------------------------------------------------------- get-zip-by-prefix

\* The objects of a container the zip handler reads: root objects and parts
\* of split objects, with and without a file name.
MaxZipObjects == 3
ZipObject(root, name, payload) ==
    [cid |-> "c1", owner |-> GatewayID,
     attrs |-> IF name = "" THEN EmptyMap
               ELSE AttributeFileName :> Str(name),
     payload |-> payload, root |-> root]
ZipObjects ==
    {ZipObject(TRUE, "dir/a.txt", "a1"), ZipObject(TRUE, "b.txt", "b2"),
     ZipObject(TRUE, "dir/a.txt", "c3"), ZipObject(FALSE, "dir/a.txt", "p"),
     ZipObject(TRUE, "", "n")}
ZipStores == UNION {[1 .. n -> ZipObjects] : n \in 0 .. MaxZipObjects}
ZipPrefixes == {"dir", "dir/a.txt", "b", "zz"}

\* The search of the zip handler: the root objects of the container whose
\* file-name attribute starts with the prefix.
PrefixMatching(st, cid, prefix) ==
    {i \in 1 .. Len(st) :
        /\ st[i].cid = cid
        /\ st[i].root
        /\ AttributeFileName \in DOMAIN st[i].attrs
        /\ HasPrefix(st[i].attrs[AttributeFileName].s, prefix)}

\* The name of an entry: the file name, cut to the path under the prefix.
ZipEntryName(name, prefix) ==
    LET rest == TrimPrefix(name, prefix)
    IN IF HasPrefix(rest, "/") THEN TrimPrefix(rest, "/") ELSE rest

\* A variant of ZipEntry that writes the name and leaves the entry empty.
ZipEntryNameOnly(st, id, prefix) ==
    [oid |-> id,
     name |-> ZipEntryName(st[id].attrs[AttributeFileName].s, prefix),
     content |-> ""]

\* One entry of the archive, written from the object read under id.
ZipEntry(st, id, prefix) ==
    [oid |-> id,
     name |-> ZipEntryName(st[id].attrs[AttributeFileName].s, prefix),
     content |-> st[id].payload]

\* The body of a zip response: the entries written so far, and whether the
\* archive was closed.
ZipBody(entries, finalised) ==
    [kind |-> "zip", text |-> "", object_id |-> 0, container_id |-> "",
     entries |-> entries, finalised |-> finalised]

\* GET /zip/{cid}/{prefix}: the search, then one get and one entry for each
\* id in the order the search returned them; a get that fails ends the
\* response with the entries written before it and the archive not closed.
downloadZipped ==
    /\ Serve
    /\ \E scid \in PathCIDs, prefix \in ZipPrefixes :
        LET req == [Request("zip", NoToken, scid, <<>>)
                    EXCEPT !.prefix = prefix]
            search == StorageOp("search", getOperations.client,
                                getOperations.sessionToken, NoToken,
                                [cid |-> scid, key |-> AttributeFileName,
                                 val |-> prefix])
            get(id) == StorageOp("get", getOperations.client,
                                 getOperations.sessionToken, NoToken,
                                 [cid |-> scid, oid |-> id])
        IN IF scid \notin ContainerIDs
           THEN last' = Done(req, <<>>,
                             ErrorResponse("wrong container id",
                                           StatusBadRequest), NoFound)
           ELSE \/ \E status \in {502, 503} :
                    last' = Done(req, <<search>>,
                                 ErrorResponse("could not search", status),
                                 NoFound)
                \/ \E ids \in Orders(PrefixMatching(store, scid, prefix)) :
                    IF Len(ids) = 0
                    THEN last' = Done(req, <<search>>,
                                      ErrorResponse("objects not found",
                                                    StatusNotFound),
                                      Found(ids))
                    ELSE \E read \in 0 .. Len(ids) :
                        last' = Done(req,
                                     <<search>> \o
                                     [i \in 1 .. Min(read + 1, Len(ids)) |->
                                        get(ids[i])],
                                     [status |-> StatusOK,
                                      body |-> ZipBody(
                                        [i \in 1 .. read |->
                                            ZipEntry(store, ids[i], prefix)],
                                        read = Len(ids)),
                                      header |-> EmptyMap],
                                     Found(ids))
    /\ UNCHANGED <<getOperations, store, uploaded>>
    /\ UNCHANGED poolVars

\* ------------------------------------------------ one function, one call

\* No function is being called.
NoCall == [fn |-> "none", input |-> <<>>, done |-> TRUE, result |-> <<>>]

\* The parts of the multipart bodies: every combination of a form name and
\* a file name, empty or not, and a part NextPart fails on.
MaxParts == 3

\* The largest number of writes of one response.
MaxWrites == 3
MultipartBodies ==
    UNION {[1 .. n ->
              {[bad |-> FALSE, form |-> f, file |-> g, ctype |-> "",
                data |-> "x"] : f \in {"", "file"}, g \in {"", "a.txt"}}
              \cup {BadPart}] : n \in 0 .. MaxParts}

\* Upload calls fetchMultipartFile on the body: the part returned (0: an
\* error), the calls of NextPart made, and the status Upload answers with
\* on an error.
callFetchMultipartFile ==
    /\ fcall.fn = "fetchMultipartFile" /\ ~fcall.done
    /\ LET idx == fetchMultipartFile(fcall.input)
           bad == {i \in DOMAIN fcall.input : fcall.input[i].bad}
           read == IF idx # 0 THEN idx
                   ELSE IF bad = {} THEN Len(fcall.input) + 1
                   ELSE CHOOSE i \in bad : \A j \in bad : i <= j
       IN fcall' = [fcall EXCEPT
                     !.done = TRUE,
                     !.result = [idx |-> idx, read |-> read,
                                 status |-> IF idx = 0 THEN StatusBadRequest
                                            ELSE 0]]
    /\ UNCHANGED poolVars
    /\ UNCHANGED <<getOperations, store, last, served, expiration, uploaded,
                   app>>

\* The request headers filterHeaders may visit: keys with the reserved
\* sub-prefix in several spellings, plain attribute keys, a key that is the
\* attribute prefix alone, keys without the prefix and an empty key, each
\* with a value or an empty one.
FilterHeaderInputs ==
    LET headers ==
            {Header(k, v) :
                k \in {"X-Attribute-Neofs-a-b", "X-Attribute-NEOFS-a-b",
                       "X-Attribute-neofs-a-b", "X-Attribute-NeoFS-a-b",
                       "X-Attribute-k", "X-Attribute-", "x-attribute-k",
                       "Neofs-a-b", ""},
                v \in {Str("v"), Str("")}}
    IN UNION {[1 .. n -> headers] : n \in 1 .. 2}

\* Upload calls filterHeaders on the headers of the request.
callFilterHeaders ==
    /\ fcall.fn = "filterHeaders" /\ ~fcall.done
    /\ fcall' = [fcall EXCEPT !.done = TRUE,
                               !.result = filterHeaders(fcall.input)]
    /\ UNCHANGED poolVars
    /\ UNCHANGED <<getOperations, store, last, served, expiration, uploaded,
                   app>>

\* The writes one response may make through the detector: up to MaxWrites
\* chunks, binary ("0...") or text, possibly empty.
DetectorWrites ==
    UNION {[1 .. n -> {"0a", "b0", "c", ""}] : n \in 0 .. MaxWrites}

\* A variant of detector.Write without the Once: every write detects.
detectorWriteEveryWrite(d, data) ==
    [once |-> TRUE,
     contentType |-> DetectContentType(data),
     detections |-> d.detections + 1,
     out |-> Append(d.out, data)]

\* detector.Write: the first write detects the content type, every write
\* goes to the wrapped writer.
detectorWrite(d, data) ==
    [once |-> TRUE,
     contentType |-> IF d.once THEN d.contentType ELSE DetectContentType(data),
     detections |-> IF d.once THEN d.detections ELSE d.detections + 1,
     out |-> Append(d.out, data)]

\* The storage client writes the next chunk of the payload to the detector.
callDetectorWrite ==
    /\ fcall.fn = "detector.Write" /\ ~fcall.done
    /\ LET d == detectorWrite(fcall.result,
                              fcall.input[Len(fcall.result.out) + 1])
       IN fcall' = [fcall EXCEPT !.result = d,
                                  !.done = Len(d.out) = Len(fcall.input)]
    /\ UNCHANGED poolVars
    /\ UNCHANGED <<getOperations, store, last, served, expiration, uploaded,
                   app>>

\* One pass of the loop that drains the body at the end of Upload: a Read,
\* and the loop is left when it gave io.EOF or io.ErrUnexpectedEOF. The last
\* outcome of the stream is the one every further Read gives; the passes are
\* counted modulo 2.
callDrainRead ==
    /\ fcall.fn = "drain" /\ ~fcall.done
    /\ LET err == fcall.input[fcall.result.pos]
       IN fcall' =
            IF err \in {"io.EOF", "io.ErrUnexpectedEOF"}
            THEN [fcall EXCEPT !.done = TRUE, !.result.left = TRUE]
            ELSE [fcall EXCEPT !.result.pos = Min(@ + 1, Len(fcall.input)),
                               !.result.passes = (@ + 1) % 2]
    /\ UNCHANGED poolVars
    /\ UNCHANGED <<getOperations, store, last, served, expiration, uploaded,
                   app>>

\* ------------------------------------------------------ Serve, Wait, main

\* The process after newApp: the context is live, webDone is open and no
\* goroutine has been started.
AppStarted ==
    [ctx |-> "live", main |-> "newApp", serve |-> "none", watch |-> "none",
     worker |-> "none", conns |-> 0, shutdown |-> "none",
     webDone |-> "open", exited |-> FALSE]

\* The process while it answers requests: main is in Wait, Serve is in
\* ListenAndServe, its goroutine waits for the context.
AppListening ==
    [AppStarted EXCEPT !.main = "Wait", !.serve = "ListenAndServe",
                       !.watch = "ctx.Done", !.worker = "running"]

\* The connections the web server holds open at the same time.
MaxConns == 2

\* A step of the process that changes nothing but app.
AppStep(next) ==
    /\ ~app.exited
    /\ app' = next
    /\ UNCHANGED poolVars
    /\ UNCHANGED <<getOperations, store, last, served, expiration, uploaded,
                   fcall>>

\* The top-level context is cancelled (global.Context on a signal, cancel()
\* of the integration test).
cancel ==
    /\ app.ctx = "live"
    /\ AppStep([app EXCEPT !.ctx = "cancelled"])

\* main: go app.Serve(globalContext)
goServe ==
    /\ app.main = "newApp"
    /\ AppStep([app EXCEPT !.main = "goServe", !.serve = "start"])

\* main: go app.Worker(globalContext)
goWorker ==
    /\ app.main = "goServe"
    /\ AppStep([app EXCEPT !.main = "goWorker", !.worker = "running"])

\* main: app.Wait() is entered.
WaitEnter ==
    /\ app.main = "goWorker"
    /\ AppStep([app EXCEPT !.main = "Wait"])

\* Wait: <-a.webDone returns once the channel is closed; main returns and
\* the process ends.
Wait ==
    /\ app.main = "Wait"
    /\ app.webDone = "closed"
    /\ AppStep([app EXCEPT !.main = "returned", !.exited = TRUE])

\* Worker ends when the context is cancelled.
WorkerDone ==
    /\ app.worker = "running"
    /\ app.ctx = "cancelled"
    /\ AppStep([app EXCEPT !.worker = "stopped"])

\* Serve: the goroutine that waits for the context is started.
ServeGo ==
    /\ app.serve = "start"
    /\ AppStep([app EXCEPT !.serve = "router", !.watch = "ctx.Done"])

\* Serve: the router is set up and ListenAndServe is called; a downloader
\* that cannot be made or a server that cannot start is fatal.
ServeListen ==
    /\ app.serve = "router"
    /\ \/ AppStep([app EXCEPT !.serve = "ListenAndServe"])
       \/ AppStep([app EXCEPT !.serve = "Fatal", !.exited = TRUE])

\* The web server accepts a connection, or a connection ends.
Connection ==
    /\ app.serve = "ListenAndServe"
    /\ \/ /\ app.watch \in {"none", "ctx.Done"}
          /\ app.conns < MaxConns
          /\ AppStep([app EXCEPT !.conns = @ + 1])
       \/ /\ app.conns > 0
          /\ AppStep([app EXCEPT !.conns = @ - 1])

\* A variant of ServeCtxDone that closes webDone without calling Shutdown.
ServeCtxDoneNoShutdown ==
    /\ app.watch = "ctx.Done"
    /\ app.ctx = "cancelled"
    /\ AppStep([app EXCEPT !.watch = "closed", !.webDone = "closed"])

\* Serve's goroutine: <-ctx.Done() returns and Shutdown is called.
ServeCtxDone ==
    /\ app.watch = "ctx.Done"
    /\ app.ctx = "cancelled"
    /\ AppStep([app EXCEPT !.watch = "Shutdown", !.shutdown = "called"])

\* webServer.Shutdown returns, once no connection is open.
ShutdownReturns ==
    /\ app.watch = "Shutdown"
    /\ app.conns = 0
    /\ AppStep([app EXCEPT !.watch = "Shutdown returned",
                            !.shutdown = "returned"])

\* Serve's goroutine: close(a.webDone)
closeWebDone ==
    /\ app.watch = "Shutdown returned"
    /\ AppStep([app EXCEPT !.watch = "closed", !.webDone = "closed"])

\* ListenAndServe returns nil after Shutdown, and Serve returns.
ServeReturns ==
    /\ app.serve = "ListenAndServe"
    /\ app.watch \in {"Shutdown", "Shutdown returned", "closed"}
    /\ app.conns = 0
    /\ AppStep([app EXCEPT !.serve = "returned"])

\* newApp: the pool is built from the peers section with every node
\* connected, and the client and session of the downloads are taken from it.
newApp(cfg) ==
    /\ peers = cfg
    /\ healthy = [n \in Nodes |-> TRUE]
    /\ errCount = [n \in Nodes |-> 0]
    /\ inflight = [n \in Nodes |-> 0]
    /\ lastAcquire = [res |-> "none", node |-> NoNode, saw |-> healthy]
    /\ \E n \in AcquireSet(newAppPeers(cfg), healthy) :
        getOperations = [client |-> n, sessionToken |-> newAppSession]
    /\ last = Done(NoRequest, <<>>, NoResponse, NoFound)
    /\ served = 0

\* The peers section of docs/gate-configuration.md, cut to NumNodes peers.
DocPeers == [n \in Nodes |-> [priority |-> IF n = 1 THEN 1 ELSE 2, weight |-> 1]]

InitPool ==
    /\ \E cfg \in PeerConfigs : newApp(cfg)
    /\ store = <<>>
    /\ uploaded = <<>>
    /\ expiration = NoExpiration
    /\ app = AppListening
    /\ fcall = NoCall

\* The gateway starts over a storage network that may hold objects already.
InitGate ==
    /\ newApp(DocPeers)
    /\ store \in Stores
    /\ uploaded = [i \in DOMAIN store |-> NoRequest]
    /\ expiration = NoExpiration
    /\ app = AppListening
    /\ fcall = NoCall

\* Upload is about to translate the expiration headers of a request.
InitExpiration ==
    /\ newApp(DocPeers)
    /\ store = <<>>
    /\ uploaded = <<>>
    /\ \E headers \in ExpirationHeaders, info \in ExpirationNetworkInfos,
          now \in ExpirationNows :
        expiration = [done |-> FALSE, headers |-> filterHeaders(headers),
                      info |-> info, now |-> now, err |-> FALSE,
                      panic |-> FALSE, result |-> EmptyMap]
    /\ app = AppListening
    /\ fcall = NoCall

NextExpiration == translateExpiration

\* The gateway starts over an empty container; an upload is followed by a
\* download of what it stored.
InitRoundTrip ==
    /\ newApp(DocPeers)
    /\ store = <<>>
    /\ uploaded = <<>>
    /\ expiration = NoExpiration
    /\ app = AppListening
    /\ fcall = NoCall

NextRoundTrip == Upload \/ subsequentDownload

\* The gateway starts over a container of objects with file names.
InitZip ==
    /\ newApp(DocPeers)
    /\ store \in ZipStores
    /\ uploaded = [i \in DOMAIN store |-> NoRequest]
    /\ expiration = NoExpiration
    /\ app = AppListening
    /\ fcall = NoCall

NextZip == downloadZipped

\* A function of the gateway is about to be called on one of its inputs.
InitCalls ==
    /\ newApp(DocPeers)
    /\ store = <<>>
    /\ uploaded = <<>>
    /\ expiration = NoExpiration
    /\ app = AppListening
    /\ \/ \E parts \in MultipartBodies :
            fcall = [fn |-> "fetchMultipartFile", input |-> parts,
                     done |-> FALSE, result |-> <<>>]
       \/ \E writes \in DetectorWrites :
            fcall = [fn |-> "detector.Write", input |-> writes,
                     done |-> writes = <<>>,
                     result |-> [once |-> FALSE, contentType |-> "",
                                 detections |-> 0, out |-> <<>>]]
       \/ \E stream \in BodyStreams :
            fcall = [fn |-> "drain", input |-> stream, done |-> FALSE,
                     result |-> [pos |-> 1, passes |-> 0, left |-> FALSE]]
       \/ \E header \in FilterHeaderInputs :
            fcall = [fn |-> "filterHeaders", input |-> header,
                     done |-> FALSE, result |-> <<>>]

\* main has made the application and is about to start Serve.
InitLifecycle ==
    /\ newApp(DocPeers)
    /\ store = <<>>
    /\ uploaded = <<>>
    /\ expiration = NoExpiration
    /\ app = AppStarted
    /\ fcall = NoCall

NextLifecycle ==
    \/ cancel \/ goServe \/ goWorker \/ WaitEnter \/ Wait \/ WorkerDone
    \/ ServeGo \/ ServeListen \/ Connection \/ ServeCtxDone
    \/ ShutdownReturns \/ closeWebDone \/ ServeReturns

Next == Upload \/ byAddress \/ byAttribute \/ ProbeLoop

NextPool == Acquire \/ Report \/ ProbeLoop

vars == <<peers, healthy, errCount, inflight, lastAcquire,
          getOperations, store, last, served, expiration, uploaded, app,
          fcall>>

SpecPool == InitPool /\ [][NextPool]_vars

Spec == InitGate /\ [][Next]_vars

SpecExpiration == InitExpiration /\ [][NextExpiration]_vars

SpecRoundTrip == InitRoundTrip /\ [][NextRoundTrip]_vars

SpecZip == InitZip /\ [][NextZip]_vars

SpecCalls ==
    /\ InitCalls
    /\ [][\/ callFetchMultipartFile
          \/ callFilterHeaders
          \/ callDetectorWrite
          \/ callDrainRead]_vars
    /\ WF_vars(callDrainRead)

\* Every goroutine that can take a step takes one; the context may stay
\* live for ever, and a connection that is open ends.
SpecLifecycle ==
    /\ InitLifecycle /\ [][NextLifecycle]_vars
    /\ WF_vars(goServe) /\ WF_vars(goWorker) /\ WF_vars(WaitEnter)
    /\ WF_vars(Wait) /\ WF_vars(WorkerDone) /\ WF_vars(ServeGo)
    /\ WF_vars(ServeListen) /\ WF_vars(ServeCtxDone)
    /\ WF_vars(ShutdownReturns) /\ WF_vars(closeWebDone)
    /\ WF_vars(ServeReturns)
    /\ WF_vars(Connection /\ app'.conns < app.conns)

\* ------------------------------------------------------ properties: the pool

\* C1: for every peers section and every combination of health flags, the
\* node Acquire returns is a healthy node of the smallest configured priority
\* value that has a healthy node; no node of a larger priority value is
\* returned while a node of a smaller one is healthy.
C1_TierPrecedence ==
    lastAcquire.res = "node" =>
        /\ lastAcquire.saw[lastAcquire.node]
        /\ \A m \in Nodes :
            lastAcquire.saw[m] =>
                peers[lastAcquire.node].priority <= peers[m].priority

C2_Excluded ==
    /\ \A n \in Nodes : errCount[n] >= ErrorThreshold => ~healthy[n]
    /\ lastAcquire.res = "node" => lastAcquire.saw[lastAcquire.node]

C2_Step ==
    /\ \A n \in Nodes :
        /\ errCount'[n] \in {errCount[n], errCount[n] + 1, 0}
        /\ (~healthy[n] /\ healthy'[n]) => (ProbeLoop /\ errCount'[n] = 0)
    /\ Report =>
        \E n \in Nodes :
            /\ inflight'[n] = inflight[n] - 1
            /\ errCount'[n] \in {errCount[n] + 1, 0}
            /\ errCount'[n] = 0 => healthy'[n] = healthy[n]

C3_FailFast ==
    /\ SumOver(inflight, Nodes) < MaxInFlight => ENABLED Acquire
    /\ lastAcquire.res # "none" =>
        /\ lastAcquire.res = "NoHealthyNode"
            <=> (\A n \in Nodes : ~lastAcquire.saw[n])
        /\ lastAcquire.res = "node"
            <=> (\E n \in Nodes : lastAcquire.saw[n])
        /\ lastAcquire.res = "node" => lastAcquire.node \in Nodes

\* Acquire was called with every node unhealthy and returned the error.
C3_Witness ==
    /\ lastAcquire.res = "NoHealthyNode"
    /\ \A n \in Nodes : ~lastAcquire.saw[n]

\* ------------------------------------------------- properties: the handlers

SessionOps == {"put", "get", "search"}
\* The storage operations the last request issued under a session.
IssuedOps == {last.ops[i] : i \in {j \in DOMAIN last.ops : last.ops[j].op \in SessionOps}}
\* The owning identity of a request.
RequestOwner(req) ==
    IF req.tok.kind = "valid" THEN req.tok.issuer ELSE GatewayID
ClientErrors == 400 .. 499
ErrorStatuses == 400 .. 599

\* C4: every put, get and search of a request uses a session whose owner is
\* the owning identity of the request (the issuer of a valid bearer token,
\* the gateway otherwise) and whose expiration epoch has not passed.
C4_SessionOfRequestOwner ==
    \A o \in IssuedOps :
        /\ o.session.owner = RequestOwner(last.req)
        /\ \A info \in UploadNetworkInfos : o.session.exp >= info.currentEpoch

FailureStages ==
    {"token", "cid", "multipart", "netinfo", "expiration", "putinit", "copy",
     "close", "encode"}

\* C5: an Upload that fails at any stage, from the bearer token to the
\* encoding of the response, answers with a 4xx/5xx status and leaves the
\* store as it was.
C5_FailedUploadStoresNothing ==
    [][(/\ served' # served
        /\ last'.req.handler = "Upload"
        /\ last'.stage \in FailureStages)
       => (/\ last'.resp.status \in ErrorStatuses
           /\ store' = store)]_vars

Handlers == {"Upload", "byAddress", "byAttribute"}

\* C6: a request with a malformed bearer token is answered with a 4xx status
\* and issues no put, get or search, in each of the three handlers.
C6_MalformedTokenNoStorageOp ==
    (last.req.handler \in Handlers /\ last.req.tok.kind = "malformed") =>
        /\ last.resp.status \in ClientErrors
        /\ IssuedOps = {}

\* C7: with a valid bearer token every put, get and search of the request
\* carries the token and the object put is owned by its issuer; without a
\* token none carries one and the object put is owned by the gateway.
C7_TokenOnEveryOp ==
    \A o \in IssuedOps :
        /\ last.req.tok.kind = "valid" => o.bearer = last.req.tok
        /\ last.req.tok.kind = "none" => o.bearer = NoToken
        /\ o.op = "put" => o.target.owner = RequestOwner(last.req)

\* C8: get-by-attribute answers 404 "object not found" without a get when
\* the search returns no id; otherwise the object it gets is the first id
\* returned, and a 200 response carries the payload of that object unchanged
\* with its id in x-object-id and its container in x-container-id.
C8_ByAttribute ==
    (last.req.handler = "byAttribute" /\ last.found.ok) =>
        IF Len(last.found.ids) = 0
        THEN /\ last.resp = ErrorResponse("object not found", StatusNotFound)
             /\ \A o \in IssuedOps : o.op # "get"
        ELSE /\ \A o \in IssuedOps :
                    o.op = "get" => o.target.oid = last.found.ids[1]
             /\ last.resp.status = StatusOK =>
                    /\ last.resp.body
                        = PayloadBody(store[last.found.ids[1]].payload)
                    /\ last.resp.header["x-object-id"]
                        = OidVal(last.found.ids[1])
                    /\ last.resp.header["x-container-id"]
                        = Str(last.req.cid)

\* ----------------------------------------------- properties: the expiration

DerivedForms ==
    {expirationDurationAttr, expirationTimestampAttr, expirationRFC3339Attr}

\* The milliseconds from now to the target of a derived form.
MillisecondsUntilTarget(headers, now) ==
    IF expirationDurationAttr \in DOMAIN headers
    THEN headers[expirationDurationAttr].n
    ELSE IF expirationTimestampAttr \in DOMAIN headers
    THEN headers[expirationTimestampAttr].n * 1000 - now
    ELSE headers[expirationRFC3339Attr].n * 1000 - now

\* C9: an accepted expiration value is stored as the epoch
\* currentEpoch + floor(millisecondsUntilTarget / (msPerBlock * blocksPerEpoch)).
C9_ExpirationEpoch ==
    (/\ expiration.done /\ ~expiration.err /\ ~expiration.panic
     /\ Cardinality(DOMAIN expiration.headers \cap DerivedForms) = 1
     /\ SysAttributeExpEpoch \notin DOMAIN expiration.headers)
    => /\ SysAttributeExpEpoch \in DOMAIN expiration.result
       /\ expiration.result[SysAttributeExpEpoch] =
            Num(expiration.info.currentEpoch
                + (MillisecondsUntilTarget(expiration.headers, expiration.now)
                   \div (expiration.info.msPerBlock
                         * expiration.info.epochDuration)))

\* The request carries an RFC-3339 or a Unix-timestamp expiration header of
\* a time before its reference time.
PastExpiration(req) ==
    LET headers == filterHeaders(req.hdrs)
        now == UploadNow(req.hdrs, Clock)
    IN \/ /\ expirationRFC3339Attr \in DOMAIN headers
          /\ ~ParseRFC3339(headers[expirationRFC3339Attr]).err
          /\ ParseRFC3339(headers[expirationRFC3339Attr]).t < now
       \/ /\ expirationTimestampAttr \in DOMAIN headers
          /\ ~ParseInt(headers[expirationTimestampAttr]).err
          /\ TimeUnix(ParseInt(headers[expirationTimestampAttr]).n) < now

UserAttributes(hdrs) ==
    {[K |-> TrimPrefix(hdrs[i].key, userAttributeHeaderPrefix),
      V |-> hdrs[i].val] :
        i \in {j \in DOMAIN hdrs :
                /\ HasPrefix(hdrs[j].key, userAttributeHeaderPrefix)
                /\ TrimPrefix(hdrs[j].key, userAttributeHeaderPrefix) # ""
                /\ \A n \in DOMAIN neofsAttributeHeaderPrefixes :
                    ~HasPrefix(TrimPrefix(hdrs[j].key,
                                          userAttributeHeaderPrefix),
                               neofsAttributeHeaderPrefixes[n])
                /\ ~IsEmptyVal(hdrs[j].val)
                /\ \A m \in DOMAIN hdrs :
                    m > j => hdrs[m].key # hdrs[j].key}}

SelectedParts(body) ==
    {i \in DOMAIN body :
        /\ ~body[i].bad /\ body[i].form # "" /\ body[i].file # ""
        /\ \A j \in 1..(i - 1) : body[j].form = "" \/ body[j].file = ""}

\* C12: after an upload answered with status 200 the payload of the object
\* it stored is, byte for byte and in order, the data of the selected part
\* of the body, whatever the length of the chunk buffer.
C12_PayloadIntact ==
    (last.req.handler = "Upload" /\ last.resp.status = StatusOK) =>
        /\ last.stored \in DOMAIN store
        /\ \E i \in SelectedParts(last.req.body) :
              store[last.stored].payload = last.req.body[i].data

\* A successful upload of a part longer than the chunk buffer, whose length
\* is no multiple of the buffer's.
C12_Witness ==
    /\ last.req.handler = "Upload" /\ last.resp.status = StatusOK
    /\ last.chunk = 2
    /\ store[last.stored].payload = "abc"

\* C13: a step in which Upload answers with status 200 is a step in which
\* the write stream was closed without error, that is one object was added
\* to the store by a put the handler issued; the JSON body of the answer
\* names that object and the container of the request path, which is the
\* container the object is in.
C13_OkAfterClose ==
    [][(/\ served' # served
        /\ last'.req.handler = "Upload"
        /\ last'.resp.status = StatusOK)
       => (/\ Len(store') = Len(store) + 1
           /\ SubSeq(store', 1, Len(store)) = store
           /\ last'.stored = Len(store')
           /\ \E i \in DOMAIN last'.ops : last'.ops[i].op = "put"
           /\ last'.resp.body = [kind |-> "json", text |-> "",
                                 object_id |-> Len(store'),
                                 container_id |-> last'.req.cid]
           /\ store'[Len(store')].cid = last'.req.cid)]_vars

\* An upload into a container that holds an object already, answered with
\* status 200 and the JSON of the object it added.
C13_Witness ==
    /\ last.req.handler = "Upload" /\ last.resp.status = StatusOK
    /\ last.resp.body.kind = "json"
    /\ last.resp.body.object_id = 2 /\ Len(store) = 2
    /\ last.resp.body.container_id = last.req.cid

\* C14: the archive of a zip response that was closed has exactly one entry
\* for each root object of the container whose file name starts with the
\* prefix, every entry holds the payload of its object, and no entry is of
\* an object that is no root object or whose file name does not start with
\* the prefix.
C14_ZipEntries ==
    (/\ last.req.handler = "zip"
     /\ last.resp.body.kind = "zip"
     /\ last.resp.body.finalised) =>
        LET entries == last.resp.body.entries
            wanted == {i \in DOMAIN store :
                        /\ store[i].cid = last.req.cid
                        /\ store[i].root
                        /\ AttributeFileName \in DOMAIN store[i].attrs
                        /\ LET name == store[i].attrs[AttributeFileName].s
                               p == last.req.prefix
                           IN /\ Len(name) >= Len(p)
                              /\ SubSeq(name, 1, Len(p)) = p}
        IN /\ \A i \in wanted :
                Cardinality({k \in DOMAIN entries : entries[k].oid = i}) = 1
           /\ \A k \in DOMAIN entries :
                /\ entries[k].oid \in wanted
                /\ entries[k].content = store[entries[k].oid].payload

\* A closed archive of two entries under prefix "dir", from a container
\* that also holds an object whose file name does not start with it.
C14_Witness ==
    /\ last.req.handler = "zip" /\ last.req.prefix = "dir"
    /\ last.resp.body.kind = "zip" /\ last.resp.body.finalised
    /\ Len(last.resp.body.entries) = 2
    /\ \E i \in DOMAIN store : store[i].attrs = (AttributeFileName :> Str("b.txt"))

\* The last request met a failure of a storage call: a put stream that could
\* not be opened or closed, a search that failed, or a get of an object the
\* network holds that did not return it.
UpstreamFailure ==
    \/ /\ last.req.handler = "Upload"
       /\ last.stage \in {"putinit", "close"}
    \/ /\ last.req.handler = "byAttribute"
       /\ Len(last.ops) = 1 /\ last.ops[1].op = "search"
       /\ ~last.found.ok
    \/ /\ last.req.handler \in {"byAddress", "byAttribute"}
       /\ last.ops # <<>>
       /\ LET o == last.ops[Len(last.ops)]
          IN /\ o.op = "get"
             /\ o.target.oid \in DOMAIN store
             /\ store[o.target.oid].cid = o.target.cid
             /\ last.resp.status # StatusOK

UpstreamStatuses == {502, 503}

\* C15: a request that met a failure of a storage call is answered with a
\* 502 or 503 status, never with a 4xx one.
C15_FailureClasses ==
    UpstreamFailure =>
        /\ last.resp.status \in UpstreamStatuses
        /\ last.resp.status \notin ClientErrors

\* The stages an Upload that reached the multipart parsing returns from.
ReturnStages ==
    {"multipart", "netinfo", "expiration", "putinit", "copy", "close",
     "encode", "ok"}

\* C16: when an Upload that reached the multipart parsing returns, after a
\* failed parse, a failure behind it or a success, the stream of the request
\* body has been read to its end.
C16_BodyDrained ==
    (last.req.handler = "Upload" /\ last.stage \in ReturnStages) =>
        last.drained

C18_SingleNode ==
    [][served' # served =>
        /\ \A i, j \in DOMAIN last'.ops :
                last'.ops[i].node = last'.ops[j].node
        /\ (UpstreamFailure' /\ last'.ops # <<>>) =>
                LET n == last'.ops[Len(last'.ops)].node
                IN /\ errCount'[n] = errCount[n] + 1
                   /\ last'.resp.status \in ErrorStatuses]_vars

\* C19: an expiration translation that was accepted had every derived form
\* it carried name a time strictly later than its reference time: a
\* positive duration, a timestamp after now.
C19_StrictlyLater ==
    (expiration.done /\ ~expiration.err /\ ~expiration.panic) =>
        LET headers == expiration.headers
            now == expiration.now
        IN /\ expirationDurationAttr \in DOMAIN headers =>
                headers[expirationDurationAttr].n > 0
           /\ expirationTimestampAttr \in DOMAIN headers =>
                TimeUnix(headers[expirationTimestampAttr].n) > now
           /\ expirationRFC3339Attr \in DOMAIN headers =>
                TimeUnix(headers[expirationRFC3339Attr].n) > now

\* C20: an upload whose headers carry the expiration-epoch attribute stores
\* its object with that attribute at the value the caller gave, with derived
\* expiration forms next to it or with none; with none it makes no
\* network-info call.
C20_NativeEpochKept ==
    (/\ last.req.handler = "Upload"
     /\ SysAttributeExpEpoch \in DOMAIN filterHeaders(last.req.hdrs)) =>
        /\ last.stored # 0 =>
            /\ SysAttributeExpEpoch \in DOMAIN store[last.stored].attrs
            /\ store[last.stored].attrs[SysAttributeExpEpoch] =
                    filterHeaders(last.req.hdrs)[SysAttributeExpEpoch]
            /\ DOMAIN store[last.stored].attrs \cap DerivedForms = {}
        /\ DOMAIN filterHeaders(last.req.hdrs) \cap DerivedForms = {} =>
            /\ last.stage \notin {"netinfo", "expiration"}
            /\ \A i \in DOMAIN last.ops : last.ops[i].op # "netinfo"

\* An upload that carried the epoch attribute and an RFC-3339 expiration
\* stored its object with the epoch the caller gave.
C20_Witness ==
    /\ last.req.handler = "Upload" /\ last.stored # 0
    /\ expirationRFC3339Attr \in DOMAIN filterHeaders(last.req.hdrs)
    /\ SysAttributeExpEpoch \in DOMAIN filterHeaders(last.req.hdrs)
    /\ store[last.stored].attrs[SysAttributeExpEpoch] = Num(77)

\* ------------------------------------------- properties: single functions

\* C21: on a body whose parts NextPart reads without error,
\* fetchMultipartFile returns the first part that has a form name and a
\* file name, having read the parts up to it and none after it; when the
\* body ends without such a part it returns an error, which Upload answers
\* with a 4xx status.
C21_FirstFilePart ==
    (fcall.fn = "fetchMultipartFile" /\ fcall.done) =>
        LET parts == fcall.input
            named(i) == parts[i].form # "" /\ parts[i].file # ""
            first == {i \in DOMAIN parts :
                        /\ ~parts[i].bad /\ named(i)
                        /\ \A j \in 1 .. (i - 1) :
                                ~parts[j].bad /\ ~named(j)}
        IN /\ \A i \in first :
                fcall.result.idx = i /\ fcall.result.read = i
           /\ (\A i \in DOMAIN parts : ~parts[i].bad /\ ~named(i)) =>
                /\ fcall.result.idx = 0
                /\ fcall.result.status \in ClientErrors

\* fetchMultipartFile returned the second of three parts: a form value
\* before it, another file after it.
C21_Witness ==
    /\ fcall.fn = "fetchMultipartFile" /\ fcall.done
    /\ Len(fcall.input) = 3
    /\ fcall.input[1].form # "" /\ fcall.input[1].file = ""
    /\ fcall.input[3].form # "" /\ fcall.input[3].file # ""
    /\ ~fcall.input[3].bad
    /\ fcall.result.idx = 2 /\ fcall.result.read = 2

\* A key, without the attribute prefix, starts with the reserved sub-prefix
\* in some letter case.
ReservedKey(key) ==
    Len(key) >= 6 /\ ToUpper(SubSeq(key, 1, 6)) = "NEOFS-"

\* The reserved-namespace form of such a key.
ReservedForm(key) ==
    "__NEOFS__" \o ToUpper(DashesToUnderscores(SubSeq(key, 7, Len(key))))

\* The headers filterHeaders makes attributes of: under the attribute
\* prefix, with a key behind it and a value.
AttributeHeaders(header) ==
    {i \in DOMAIN header :
        /\ HasPrefix(header[i].key, "X-Attribute-")
        /\ Len(header[i].key) > Len("X-Attribute-")
        /\ ~IsEmptyVal(header[i].val)}

\* C22: every header under the attribute prefix whose key starts with the
\* reserved sub-prefix, in any letter case, gives an attribute under the
\* reserved-namespace form of its key, and every attribute comes from a
\* header under the attribute prefix with a key and a value.
C22_ReservedRewrite ==
    (fcall.fn = "filterHeaders" /\ fcall.done) =>
        LET header == fcall.input
            key(i) == SubSeq(header[i].key, Len("X-Attribute-") + 1,
                             Len(header[i].key))
        IN /\ \A i \in AttributeHeaders(header) :
                ReservedKey(key(i)) =>
                    /\ ReservedForm(key(i)) \in DOMAIN fcall.result
                    /\ key(i) \notin DOMAIN fcall.result
           /\ \A k \in DOMAIN fcall.result :
                \E i \in AttributeHeaders(header) :
                    /\ fcall.result[k] = header[i].val
                    /\ k = IF ReservedKey(key(i)) THEN ReservedForm(key(i))
                           ELSE key(i)

\* C23: after any number of writes the content type of the detector is the
\* one detected from the data of the first write, it was detected exactly
\* once, and the wrapped writer received the bytes of every write so far,
\* unchanged and in order; before the first write nothing is detected.
C23_DetectedOnce ==
    (fcall.fn = "detector.Write") =>
        LET d == fcall.result
            n == Len(d.out)
        IN /\ n <= Len(fcall.input)
           /\ d.out = SubSeq(fcall.input, 1, n)
           /\ (n = 0) => (d.contentType = "" /\ d.detections = 0)
           /\ (n > 0) => /\ d.contentType = DetectContentType(fcall.input[1])
                         /\ d.detections = 1

\* Three writes were made, the first binary and a later one text, and the
\* detector holds the binary type.
C23_Witness ==
    /\ fcall.fn = "detector.Write" /\ fcall.done
    /\ fcall.input = <<"0a", "c", "b0">>
    /\ fcall.result.out = <<"0a", "c", "b0">>
    /\ fcall.result.contentType = "application/octet-stream"
    /\ DetectContentType("c") # "application/octet-stream"

\* ------------------------------------- properties: several expiration forms

\* The derived forms among the attributes of the translated upload.
SuppliedForms == DOMAIN expiration.headers \cap DerivedForms

\* The last supplied form in the order RFC-3339, Unix timestamp, duration.
LastSuppliedForm ==
    IF expirationDurationAttr \in SuppliedForms THEN expirationDurationAttr
    ELSE IF expirationTimestampAttr \in SuppliedForms
    THEN expirationTimestampAttr
    ELSE expirationRFC3339Attr

\* The translation of one supplied form without the others.
FormAlone(k) ==
    prepareExpirationHeader([x \in {k} |-> expiration.headers[x]],
                            getEpochDurations(expiration.info),
                            expiration.now)

\* C24: with more than one derived form and no epoch attribute, a form that
\* is refused on its own makes the translation fail, and a translation that
\* succeeds stores the epoch the last supplied form gives on its own, in
\* the order RFC-3339, Unix timestamp, duration, and keeps none of the
\* three raw keys.
C24_LastFormWins ==
    (/\ expiration.done
     /\ ~getEpochDurations(expiration.info).err
     /\ Cardinality(SuppliedForms) > 1
     /\ SysAttributeExpEpoch \notin DOMAIN expiration.headers) =>
        /\ ((\E k \in SuppliedForms : FormAlone(k).err) /\ ~expiration.panic)
                => expiration.err
        /\ (~expiration.err /\ ~expiration.panic) =>
            /\ \A k \in SuppliedForms : ~FormAlone(k).err
            /\ SysAttributeExpEpoch \in DOMAIN expiration.result
            /\ expiration.result[SysAttributeExpEpoch] =
                    FormAlone(LastSuppliedForm).headers[SysAttributeExpEpoch]
            /\ DOMAIN expiration.result \cap DerivedForms = {}

\* All three forms were supplied and accepted, and the stored epoch is the
\* one of the duration, which differs from those of the two timestamps.
C24_Witness ==
    /\ expiration.done /\ ~expiration.err /\ ~expiration.panic
    /\ SuppliedForms = DerivedForms
    /\ SysAttributeExpEpoch \notin DOMAIN expiration.headers
    /\ expiration.result[SysAttributeExpEpoch] =
            FormAlone(expirationDurationAttr).headers[SysAttributeExpEpoch]
    /\ \A k \in {expirationTimestampAttr, expirationRFC3339Attr} :
            FormAlone(k).headers[SysAttributeExpEpoch] #
                expiration.result[SysAttributeExpEpoch]
    /\ FormAlone(expirationTimestampAttr).headers[SysAttributeExpEpoch] #
            FormAlone(expirationRFC3339Attr).headers[SysAttributeExpEpoch]

\* C25: for every snapshot getEpochDurations accepts, the epoch length
\* msPerBlock * blocksPerEpoch, as a signed integer of the machine width, is
\* above zero, the translation does not divide by zero, and an epoch it
\* derives is not below the current epoch.
C25_PositiveEpochLength ==
    (expiration.done /\ ~getEpochDurations(expiration.info).err) =>
        LET durations == getEpochDurations(expiration.info)
            epochDuration ==
                Int64(durations.msPerBlock * Int64(durations.blockPerEpoch))
        IN /\ epochDuration > 0
           /\ ~expiration.panic
           /\ (/\ ~expiration.err
               /\ SysAttributeExpEpoch \notin DOMAIN expiration.headers) =>
                    expiration.result[SysAttributeExpEpoch].n
                        >= durations.currentEpoch

\* ------------------------------------------------- properties: end of Upload

\* C26: the loop that drains the body at the end of a successful Upload is
\* left, whatever the reads of the body give, an error of the connection
\* that every read repeats included, so that Upload goes on to set status
\* 200.
C26_DrainTerminates ==
    (fcall.fn = "drain") ~> (fcall.fn = "drain" /\ fcall.result.left)

\* The last request is an Upload that opened its write stream and went on to
\* the copy of the payload.
ReachedCopy ==
    /\ last.req.handler = "Upload"
    /\ last.stage \in {"panic", "copy", "close", "encode", "ok", "drain"}
    /\ \E i \in DOMAIN last.ops : last.ops[i].op = "put"

\* C27: an Upload that reaches the copy of the payload reads a chunk buffer
\* length above zero from Settings.maxObjectSize, whatever SetMaxObjectSize
\* calls were made since construction, none included, and the copy does not
\* panic on its buffer.
C27_PositiveChunk ==
    ReachedCopy => (last.chunk > 0 /\ last.stage # "panic")
====
